---- MODULE Spec2Model ----
(***************************************************************************)
(* A model of lof.py: the list-of-functions report of clof.                *)
(*                                                                         *)
(* Strings are sequences of one-character strings, so that startswith,     *)
(* concatenation and a leading "::" are things the model computes.         *)
(* A translation unit is a sequence of cursors; cursor i is tree[i], its   *)
(* lexical parent is tree[i].parent (0 is the translation unit cursor) and *)
(* the children of a cursor are listed in increasing index.                *)
(***************************************************************************)
EXTENDS Integers, Sequences, FiniteSets, TLC

VARIABLES
    pc,                    \* position of main(), or the phase of a unit specification
    library_path,          \* args.library_path
    source,                \* args.source (None when omitted)
    compilation_database,  \* args.compilation_database: None, or the commands of the database
    max_sources,           \* args.max_sources (None when omitted)
    source_files,          \* main: source_files
    idx,                   \* main: position of the list comprehension over source_files
    results,               \* main: the lists the comprehension has collected
    functions,             \* main: functions
    parsed,                \* history: the calls of index.parse, in order
    stdout,                \* the printed report lines
    raised,                \* the exception that ended the run ("" if none)
    root,                  \* unit specification of list_of_functions: the tree
    function_names,        \* unit specification of list_of_functions: the result
    full_command,          \* unit specification of the argument filter: the input
    filtered_args          \* unit specification of the argument filter: the result

mainVars == <<pc, library_path, source, compilation_database, max_sources,
              source_files, idx, results, functions, parsed, stdout, raised>>
treeVars == <<root, function_names>>
argVars == <<full_command, filtered_args>>
vars == <<pc, library_path, source, compilation_database, max_sources,
          source_files, idx, results, functions, parsed, stdout, raised,
          root, function_names, full_command, filtered_args>>

\* An optional value is a sequence of at most one element.
None == <<>>
Some(v) == <<v>>
ValueOf(opt) == opt[1]

----------------------------------------------------------------------------
(* Bounds *)

MaxArgs == 4
MaxNodes == 3
NumFiles == 3
MaxM == 2

----------------------------------------------------------------------------
(* Strings *)

startswith(s, prefix) ==
    /\ Len(s) >= Len(prefix)
    /\ SubSeq(s, 1, Len(prefix)) = prefix

OptI == <<"-", "I">>
OptD == <<"-", "D">>
OptISystem == <<"-", "i", "s", "y", "s", "t", "e", "m">>
Sep == <<":", ":">>

\* The arguments a compile command of the model is made of.
ArgCompiler == <<"c", "c">>
ArgInclude == <<"-", "I", "a">>
ArgDefine == <<"-", "D", "b">>
ArgOptimise == <<"-", "O", "2">>
ArgPath == <<"s", "y", "s">>
ArgAlphabet == {ArgCompiler, ArgInclude, ArgDefine, ArgOptimise, ArgPath, OptISystem}

RECURSIVE SeqsUpTo(_, _)
SeqsUpTo(S, n) ==
    IF n = 0 THEN {<<>>}
    ELSE LET shorter == SeqsUpTo(S, n - 1)
         IN shorter \cup {Append(s, x) : s \in {t \in shorter : Len(t) = n - 1}, x \in S}

----------------------------------------------------------------------------
(* compilation_args_from_db, lines 91-102: the loop over full_command.     *)
(* The result is [raised, value]: the exception the loop ends with ("" if  *)
(* none) and filtered_args.  i is the 1-based index, idx = i - 1.          *)

RECURSIVE FilterLoop(_, _, _)
FilterLoop(fc, i, acc) ==
    IF i > Len(fc) THEN [raised |-> "", value |-> acc]
    ELSE LET arg == fc[i]
             acc1 == IF startswith(arg, OptI) \/ startswith(arg, OptD)
                     THEN Append(acc, arg) ELSE acc
         IN IF arg = OptISystem
            THEN IF ~(i - 1 < Len(fc))
                 THEN [raised |-> "AssertionError", value |-> acc1]
                 ELSE IF i + 1 > Len(fc)
                      THEN [raised |-> "IndexError", value |-> Append(acc1, arg)]
                      ELSE FilterLoop(fc, i + 1, Append(Append(acc1, arg), fc[i + 1]))
            ELSE FilterLoop(fc, i + 1, acc1)

\* Mutant: a trailing -isystem is kept without an error.
filter_args_lenient(fc) == [raised |-> "", value |-> FilterLoop(fc, 1, <<>>).value]

filter_args(fc) == FilterLoop(fc, 1, <<>>)

----------------------------------------------------------------------------
(* Cursors.  Every cursor of the model has a kind the bindings know, so    *)
(* the ValueError handler of fully_qualified is never entered.             *)

all_fn_types == {"FUNCTION_DECL", "CONSTRUCTOR", "CXX_METHOD", "FUNCTION_TEMPLATE"}
all_qual_kinds == {"CLASS_DECL", "NAMESPACE"}
\* Kinds of clang.cindex.CursorKind that lof.py does not name.
OtherKinds == {"STRUCT_DECL", "FIELD_DECL"}
CursorKinds == all_fn_types \cup all_qual_kinds \cup OtherKinds

TranslationUnitCursor == 0
NoCursor == 0 - 1

NoExtent == [present |-> FALSE, start_line |-> 0, end_line |-> 0]
Extent(s, e) == [present |-> TRUE, start_line |-> s, end_line |-> e]

\* displayname of a function-like cursor carries its parameter list.
DisplayName(kind, letter) ==
    IF kind \in all_fn_types THEN <<letter, "(", ")">> ELSE <<letter>>

Cursor(kind, letter, parent, semantic_parent, extent) ==
    [kind |-> kind, spelling |-> <<letter>>, displayname |-> DisplayName(kind, letter),
     parent |-> parent, semantic_parent |-> semantic_parent, extent |-> extent]

\* FunctionEntry.lines
lines(fn) ==
    IF ~fn.node.extent.present THEN 0
    ELSE fn.node.extent.end_line - fn.node.extent.start_line

RECURSIVE fully_qualified(_, _)
fully_qualified(tree, c) ==
    IF c = NoCursor THEN <<>>
    ELSE IF c = TranslationUnitCursor THEN <<>>
    ELSE LET res == fully_qualified(tree, tree[c].semantic_parent)
         IN IF res # <<>> THEN res \o Sep \o tree[c].spelling
            ELSE tree[c].spelling

\* root.get_children(): the cursors whose lexical parent is r, in order.
RECURSIVE ChildrenFrom(_, _, _)
ChildrenFrom(tree, r, i) ==
    IF i > Len(tree) THEN <<>>
    ELSE IF tree[i].parent = r THEN <<i>> \o ChildrenFrom(tree, r, i + 1)
    ELSE ChildrenFrom(tree, r, i + 1)

get_children(tree, r) == ChildrenFrom(tree, r, 1)

FunctionEntry(tree, tu, i) ==
    [name |-> fully_qualified(tree, tree[i].semantic_parent) \o Sep \o tree[i].displayname,
     node |-> [tu |-> tu, id |-> i, extent |-> tree[i].extent]]

\* list_of_functions(root): tu tags the entries' cursors with the parse
\* call they come from, as a Cursor belongs to its translation unit.
RECURSIVE list_of_functions(_, _, _), ListLoop(_, _, _, _)
list_of_functions(tree, tu, r) == ListLoop(tree, tu, get_children(tree, r), 1)

ListLoop(tree, tu, children, k) ==
    IF k > Len(children) THEN <<>>
    ELSE LET node == children[k]
             here == IF tree[node].kind \in all_fn_types
                     THEN <<FunctionEntry(tree, tu, node)>>
                     ELSE IF tree[node].kind \in all_qual_kinds
                     THEN list_of_functions(tree, tu, node)
                     ELSE <<>>
         IN here \o ListLoop(tree, tu, children, k + 1)

----------------------------------------------------------------------------
(* The trees of the unit specification: every tree of at most MaxNodes     *)
(* cursors.  A cursor's lexical parent is the translation unit or an       *)
(* earlier cursor; its semantic parent is its lexical parent, or, for a    *)
(* function-like cursor defined out of line, an earlier scope.             *)

ScopeKinds == {"CLASS_DECL", "STRUCT_DECL", "NAMESPACE"}

\* The i-th cursor of a generated tree is spelled with the i-th letter.
Letters == <<"N", "C", "f", "g", "h", "k", "m", "p">>

ParentMaps(n) == {p \in [1..n -> 0..(n - 1)] : \A i \in 1..n : p[i] < i}

SemanticParentMaps(n, kinds, parents) ==
    {sp \in [1..n -> 0..(n - 1)] :
        \A i \in 1..n :
            \/ sp[i] = parents[i]
            \/ /\ kinds[i] \in all_fn_types
               /\ sp[i] \in 1..(i - 1)
               /\ kinds[sp[i]] \in ScopeKinds}

TreeOf(n, kinds, parents, sps) ==
    [i \in 1..n |-> Cursor(kinds[i], Letters[i], parents[i], sps[i], Extent(1, 2))]

----------------------------------------------------------------------------
(* The compilation database: a sequence of compile commands, each with the *)
(* file it builds and its arguments.                                       *)

CompileCommand(file, arguments) == [filename |-> file, arguments |-> arguments]

\* CompilationDatabase.getCompileCommands(file): the commands of the file,
\* and None when the database has no command for it.
getCompileCommands(cc_db, file) ==
    LET found == SelectSeq(cc_db, LAMBDA c : c.filename = file)
    IN IF found = <<>> THEN None ELSE Some(found)

\* compile_commands_from_db: iterating over None raises TypeError.
compile_commands_from_db(db, file) ==
    IF db = None THEN [raised |-> "", value |-> <<>>]
    ELSE LET compile_commands == getCompileCommands(ValueOf(db), file)
         IN IF compile_commands = None
            THEN [raised |-> "TypeError", value |-> <<>>]
            ELSE [raised |-> "", value |-> ValueOf(compile_commands)[1].arguments]

compilation_args_from_db(db, file) ==
    LET full == compile_commands_from_db(db, file)
    IN IF full.raised # "" THEN full ELSE filter_args(full.value)

source_files_from_db(db) == [k \in 1..Len(ValueOf(db)) |-> ValueOf(db)[k].filename]

\* s[:m] of Python.
Slice(s, m) ==
    IF m >= 0 THEN SubSeq(s, 1, IF m < Len(s) THEN m ELSE Len(s))
    ELSE SubSeq(s, 1, IF Len(s) + m > 0 THEN Len(s) + m ELSE 0)

----------------------------------------------------------------------------
(* Filtering and ordering.                                                 *)

\* Mutant: entries of zero lines are kept.
filter_empty_functions_keeps_zero(fns) == SelectSeq(fns, LAMBDA fn : lines(fn) >= 0)

filter_empty_functions(fns) == SelectSeq(fns, LAMBDA fn : lines(fn) > 0)

\* Mutant: an entry goes before the entries of the same line count.
RECURSIVE InsertByLines_unstable(_, _)
InsertByLines_unstable(sorted, fn) ==
    IF sorted = <<>> THEN <<fn>>
    ELSE IF lines(sorted[Len(sorted)]) < lines(fn) THEN Append(sorted, fn)
    ELSE Append(InsertByLines_unstable(SubSeq(sorted, 1, Len(sorted) - 1), fn),
                sorted[Len(sorted)])

\* sorted() is stable: an entry goes after every entry that does not have
\* more lines than it.
RECURSIVE InsertByLines(_, _)
InsertByLines(sorted, fn) ==
    IF sorted = <<>> THEN <<fn>>
    ELSE IF lines(sorted[Len(sorted)]) <= lines(fn) THEN Append(sorted, fn)
    ELSE Append(InsertByLines(SubSeq(sorted, 1, Len(sorted) - 1), fn), sorted[Len(sorted)])

RECURSIVE SortedPrefix(_, _)
SortedPrefix(fns, n) ==
    IF n = 0 THEN <<>> ELSE InsertByLines(SortedPrefix(fns, n - 1), fns[n])

\* Mutant: the list is returned in the order it came.
order_by_lines_unsorted(fns) == fns

order_by_lines(fns) == SortedPrefix(fns, Len(fns))

\* sum(lists, [])
RECURSIVE Sum(_)
Sum(lists) == IF lists = <<>> THEN <<>> ELSE Head(lists) \o Sum(Tail(lists))

----------------------------------------------------------------------------
(* index.parse: it raises TranslationUnitLoadError or gives a tree.        *)

LoadError == [status |-> "TranslationUnitLoadError", cursor |-> <<>>]
Parsed(tree) == [status |-> "ok", cursor |-> tree]

\* namespace N { class C { void f() {..3 lines..} }; }  void g() {..1 line..}
\* with g listed before f in the cursor table.
TreeScenario ==
    <<Cursor("NAMESPACE", "N", 0, 0, Extent(1, 7)),
      Cursor("CLASS_DECL", "C", 1, 1, Extent(2, 6)),
      Cursor("FUNCTION_DECL", "g", 0, 0, Extent(9, 10)),
      Cursor("CXX_METHOD", "f", 2, 2, Extent(3, 6))>>

\* class S { S() {..1 line..}  void m(); };  void g() {..1 line..}
\* template<class T> void h() {..3 lines..}  void k() {..1 line..}
\* and p, a cursor without extent.
TreeTies ==
    <<Cursor("CLASS_DECL", "S", 0, 0, Extent(1, 8)),
      Cursor("FUNCTION_DECL", "g", 0, 0, Extent(10, 11)),
      Cursor("CONSTRUCTOR", "S", 1, 1, Extent(2, 3)),
      Cursor("CXX_METHOD", "m", 1, 1, Extent(6, 6)),
      Cursor("FUNCTION_TEMPLATE", "h", 0, 0, Extent(13, 16)),
      Cursor("FUNCTION_DECL", "k", 0, 0, Extent(18, 19)),
      Cursor("FUNCTION_DECL", "p", 0, 0, NoExtent)>>

\* A translation unit without declarations.
TreeEmpty == <<>>

ParseOutcomes == {LoadError, Parsed(TreeEmpty), Parsed(TreeScenario), Parsed(TreeTies)}

\* Mutant: TranslationUnitLoadError is not caught.
functions_from_file_uncaught(db, file, outcome, tu) ==
    LET compilation_args == compilation_args_from_db(db, file)
        call == [source |-> file, args |-> compilation_args.value, result |-> outcome]
    IN IF compilation_args.raised # ""
       THEN [raised |-> compilation_args.raised, functions |-> <<>>, parsed |-> <<>>]
       ELSE IF outcome.status = "TranslationUnitLoadError"
       THEN [raised |-> "TranslationUnitLoadError", functions |-> <<>>, parsed |-> <<call>>]
       ELSE [raised |-> "",
             functions |-> filter_empty_functions(
                               list_of_functions(outcome.cursor, tu, TranslationUnitCursor)),
             parsed |-> <<call>>]

\* functions_from_file(db, source), given what index.parse does when it is
\* called.  The result is [raised, functions, parsed]: the exception that
\* leaves the function ("" if none), the returned list, and the parse call
\* made (none when the arguments could not be extracted).  tu numbers the
\* parse call.
functions_from_file(db, file, outcome, tu) ==
    LET compilation_args == compilation_args_from_db(db, file)
        call == [source |-> file, args |-> compilation_args.value, result |-> outcome]
    IN IF compilation_args.raised # ""
       THEN [raised |-> compilation_args.raised, functions |-> <<>>, parsed |-> <<>>]
       ELSE IF outcome.status = "TranslationUnitLoadError"
       THEN [raised |-> "", functions |-> <<>>, parsed |-> <<call>>]
       ELSE [raised |-> "",
             functions |-> filter_empty_functions(
                               list_of_functions(outcome.cursor, tu, TranslationUnitCursor)),
             parsed |-> <<call>>]

----------------------------------------------------------------------------
(* Unit specification of list_of_functions: a tree, then its entries.      *)

MainIdle ==
    /\ library_path = <<>> /\ source = None /\ compilation_database = None
    /\ max_sources = None /\ source_files = <<>> /\ idx = 0 /\ results = <<>>
    /\ functions = <<>>
    /\ parsed = <<>> /\ stdout = <<>> /\ raised = ""

TreeIdle == root = <<>> /\ function_names = <<>>
ArgIdle == full_command = <<>> /\ filtered_args = [raised |-> "", value |-> <<>>]

InitTree ==
    /\ pc = "tree"
    /\ \E n \in 0..MaxNodes :
         \E kinds \in [1..n -> CursorKinds], parents \in ParentMaps(n) :
             \E sps \in SemanticParentMaps(n, kinds, parents) :
                 root = TreeOf(n, kinds, parents, sps)
    /\ function_names = <<>>
    /\ MainIdle /\ ArgIdle

ListOfFunctions ==
    /\ pc = "tree"
    /\ function_names' = list_of_functions(root, 0, TranslationUnitCursor)
    /\ pc' = "listed"
    /\ UNCHANGED <<library_path, source, compilation_database, max_sources,
                   source_files, idx, results, functions, parsed, stdout, raised,
                   root, full_command, filtered_args>>

NextTree == ListOfFunctions
SpecTree == InitTree /\ [][NextTree]_vars

----------------------------------------------------------------------------
(* Unit specification of the argument filter: an argument list, then the   *)
(* filtered arguments.                                                     *)

InitArgs ==
    /\ pc = "command"
    /\ full_command \in SeqsUpTo(ArgAlphabet, MaxArgs)
    /\ filtered_args = [raised |-> "", value |-> <<>>]
    /\ MainIdle /\ TreeIdle

FilterArgs ==
    /\ pc = "command"
    /\ filtered_args' = filter_args(full_command)
    /\ pc' = "filtered"
    /\ UNCHANGED <<library_path, source, compilation_database, max_sources,
                   source_files, idx, results, functions, parsed, stdout, raised,
                   root, function_names, full_command>>

NextArgs == FilterArgs
SpecArgs == InitArgs /\ [][NextArgs]_vars

----------------------------------------------------------------------------
(* main().  The command line is the initial state.                         *)

GoodCommand == <<ArgCompiler, ArgInclude, ArgOptimise, OptISystem, ArgPath>>
PlainCommand == <<ArgCompiler, ArgOptimise>>
MalformedCommand == <<ArgCompiler, ArgDefine, OptISystem>>
CommandLines == {GoodCommand, PlainCommand, MalformedCommand}

\* A database of n files: command k builds file k.
DatabasesOf(n) ==
    {[k \in 1..n |-> CompileCommand(k, a[k])] : a \in [1..n -> CommandLines]}
Databases == UNION {DatabasesOf(n) : n \in 0..NumFiles}

LibraryPath == <<"l", "i", "b">>

Init ==
    /\ pc = "main"
    /\ library_path \in {<<>>, LibraryPath}
    /\ source \in {None} \cup {Some(f) : f \in 1..NumFiles}
    /\ compilation_database \in {None} \cup {Some(d) : d \in Databases}
    /\ max_sources \in {None} \cup {Some(m) : m \in 0..MaxM}
    /\ source_files = <<>> /\ idx = 0 /\ results = <<>> /\ functions = <<>>
    /\ parsed = <<>> /\ stdout = <<>> /\ raised = ""
    /\ TreeIdle /\ ArgIdle

\* lines 146-148
ExitNoLibraryPath ==
    /\ pc = "main"
    /\ library_path = <<>>
    /\ raised' = "SystemExit"
    /\ pc' = "raised"
    /\ UNCHANGED <<library_path, source, compilation_database, max_sources,
                   source_files, idx, results, functions, parsed, stdout,
                   root, function_names, full_command, filtered_args>>

\* lines 155-156
SingleFile ==
    /\ pc = "main"
    /\ library_path # <<>>
    /\ source # None
    /\ \E outcome \in ParseOutcomes :
         LET r == functions_from_file(compilation_database, ValueOf(source), outcome,
                                      Len(parsed) + 1)
         IN /\ parsed' = parsed \o r.parsed
            /\ raised' = r.raised
            /\ functions' = r.functions
            /\ pc' = IF r.raised # "" THEN "raised" ELSE "order"
    /\ UNCHANGED <<library_path, source, compilation_database, max_sources,
                   source_files, idx, results, stdout,
                   root, function_names, full_command, filtered_args>>

\* lines 158-159
NoDatabase ==
    /\ pc = "main"
    /\ library_path # <<>>
    /\ source = None
    /\ compilation_database = None
    /\ raised' = "RuntimeError"
    /\ pc' = "raised"
    /\ UNCHANGED <<library_path, source, compilation_database, max_sources,
                   source_files, idx, results, functions, parsed, stdout,
                   root, function_names, full_command, filtered_args>>

\* lines 160-162
ListSources ==
    /\ pc = "main"
    /\ library_path # <<>>
    /\ source = None
    /\ compilation_database # None
    /\ source_files' =
          IF max_sources # None /\ ValueOf(max_sources) # 0
          THEN Slice(source_files_from_db(compilation_database), ValueOf(max_sources))
          ELSE source_files_from_db(compilation_database)
    /\ idx' = 1
    /\ pc' = "batch"
    /\ UNCHANGED <<library_path, source, compilation_database, max_sources,
                   results, functions, parsed, stdout, raised,
                   root, function_names, full_command, filtered_args>>

\* lines 163-166: one element of the comprehension
ProcessFile ==
    /\ pc = "batch"
    /\ idx <= Len(source_files)
    /\ \E outcome \in ParseOutcomes :
         LET r == functions_from_file(compilation_database, source_files[idx], outcome,
                                      Len(parsed) + 1)
         IN /\ parsed' = parsed \o r.parsed
            /\ raised' = r.raised
            /\ results' = IF r.raised # "" THEN results ELSE Append(results, r.functions)
            /\ idx' = IF r.raised # "" THEN idx ELSE idx + 1
            /\ pc' = IF r.raised # "" THEN "raised" ELSE "batch"
    /\ UNCHANGED <<library_path, source, compilation_database, max_sources,
                   source_files, functions, stdout,
                   root, function_names, full_command, filtered_args>>

\* line 163: the sum of the collected lists
SumResults ==
    /\ pc = "batch"
    /\ idx > Len(source_files)
    /\ functions' = Sum(results)
    /\ pc' = "order"
    /\ UNCHANGED <<library_path, source, compilation_database, max_sources,
                   source_files, idx, results, parsed, stdout, raised,
                   root, function_names, full_command, filtered_args>>

\* line 168
OrderByLines ==
    /\ pc = "order"
    /\ functions' = order_by_lines(functions)
    /\ pc' = "print"
    /\ UNCHANGED <<library_path, source, compilation_database, max_sources,
                   source_files, idx, results, parsed, stdout, raised,
                   root, function_names, full_command, filtered_args>>

\* lines 169-170: a report line is the name and the line count it shows
PrintReport ==
    /\ pc = "print"
    /\ stdout' = [k \in 1..Len(functions) |->
                     [name |-> functions[k].name, lines |-> lines(functions[k]),
                      node |-> functions[k].node]]
    /\ pc' = "done"
    /\ UNCHANGED <<library_path, source, compilation_database, max_sources,
                   source_files, idx, results, functions, parsed, raised,
                   root, function_names, full_command, filtered_args>>

Next ==
    \/ ExitNoLibraryPath
    \/ SingleFile
    \/ NoDatabase
    \/ ListSources
    \/ ProcessFile
    \/ SumResults
    \/ OrderByLines
    \/ PrintReport

Spec == Init /\ [][Next]_vars

----------------------------------------------------------------------------
(* Properties of list_of_functions and fully_qualified.                    *)

\* The enclosing scopes of cursor c, outermost first, by semantic parent.
RECURSIVE ScopeChain(_, _)
ScopeChain(tree, c) ==
    IF c <= TranslationUnitCursor THEN <<>>
    ELSE Append(ScopeChain(tree, tree[c].semantic_parent), c)

RECURSIVE JoinSep(_)
JoinSep(segments) ==
    IF segments = <<>> THEN <<>>
    ELSE IF Len(segments) = 1 THEN segments[1]
    ELSE segments[1] \o Sep \o JoinSep(Tail(segments))

ScopedName(tree, i) ==
    JoinSep([k \in 1..Len(ScopeChain(tree, tree[i].semantic_parent)) |->
                 tree[ScopeChain(tree, tree[i].semantic_parent)[k]].spelling]
            \o <<tree[i].displayname>>)

\* The lexical ancestors of cursor i below the translation unit.
RECURSIVE Ancestors(_, _)
Ancestors(tree, i) ==
    IF tree[i].parent = TranslationUnitCursor THEN {}
    ELSE {tree[i].parent} \cup Ancestors(tree, tree[i].parent)

ListedIds == {function_names[k].node.id : k \in 1..Len(function_names)}

\* C1: every emitted entry is named by the "::"-joined spellings of its
\* enclosing scopes, outermost first, followed by its own name, with no
\* leading "::" (a free function g is named g).
C1_ScopedNames ==
    pc = "listed" =>
        \A k \in 1..Len(function_names) :
            function_names[k].name = ScopedName(root, function_names[k].node.id)

\* C5: list_of_functions emits exactly one entry for each function-like
\* cursor all of whose ancestors are scopes (class, struct or namespace),
\* and no entry for any other cursor.
C5_ExactlyScopedFunctions ==
    pc = "listed" =>
        /\ ListedIds = {i \in 1..Len(root) :
                            /\ root[i].kind \in all_fn_types
                            /\ \A a \in Ancestors(root, i) : root[a].kind \in ScopeKinds}
        /\ Cardinality(ListedIds) = Len(function_names)

----------------------------------------------------------------------------
(* Properties of the argument filter.                                      *)

\* The positions of full_command the filter is to keep.
KeptPositions(fc) ==
    {i \in 1..Len(fc) :
        \/ startswith(fc[i], OptI)
        \/ startswith(fc[i], OptD)
        \/ fc[i] = OptISystem
        \/ (i > 1 /\ fc[i - 1] = OptISystem)}

RECURSIVE SubsequenceAt(_, _, _)
SubsequenceAt(fc, keep, i) ==
    IF i > Len(fc) THEN <<>>
    ELSE (IF i \in keep THEN <<fc[i]>> ELSE <<>>) \o SubsequenceAt(fc, keep, i + 1)

\* C6: the filtered arguments are exactly the kept flags in their original
\* order, each once: every -I.. and -D.. argument and every -isystem with
\* the argument after it, a subsequence of the input without duplicates.
C6_KeptFlagsOnce ==
    (pc = "filtered" /\ filtered_args.raised = "") =>
        filtered_args.value = SubsequenceAt(full_command, KeptPositions(full_command), 1)

----------------------------------------------------------------------------
(* Properties of main().                                                   *)

Batch == source = None /\ compilation_database # None /\ library_path # <<>>
Single == source # None /\ library_path # <<>>

\* The first compile command of the file ends with -isystem.
Malformed(file) ==
    /\ compilation_database # None
    /\ \E k \in 1..Len(ValueOf(compilation_database)) :
          LET c == ValueOf(compilation_database)[k]
          IN /\ c.filename = file
             /\ \A j \in 1..(k - 1) : ValueOf(compilation_database)[j].filename # file
             /\ c.arguments # <<>>
             /\ c.arguments[Len(c.arguments)] = OptISystem

\* The path of cursor i from the translation unit, and pre-order on paths.
RECURSIVE PathTo(_, _)
PathTo(tree, i) ==
    IF tree[i].parent = TranslationUnitCursor THEN <<i>>
    ELSE Append(PathTo(tree, tree[i].parent), i)

RECURSIVE PathBefore(_, _)
PathBefore(p, q) ==
    IF p = <<>> THEN q # <<>>
    ELSE IF q = <<>> THEN FALSE
    ELSE IF p[1] = q[1] THEN PathBefore(Tail(p), Tail(q))
    ELSE p[1] < q[1]

\* The cursors a parse call contributes: function-like, reached through
\* classes and namespaces only, with at least one line.
Contributed(j) ==
    LET tree == parsed[j].result.cursor
    IN {[tu |-> j, id |-> i] :
            i \in {n \in 1..Len(tree) :
                      /\ tree[n].kind \in all_fn_types
                      /\ \A a \in Ancestors(tree, n) : tree[a].kind \in all_qual_kinds
                      /\ tree[n].extent.present
                      /\ tree[n].extent.end_line - tree[n].extent.start_line > 0}}

Discovered == UNION {Contributed(j) : j \in 1..Len(parsed)}

Key(node) == [tu |-> node.tu, id |-> node.id]

DiscoveredBefore(a, b) ==
    \/ a.tu < b.tu
    \/ /\ a.tu = b.tu
       /\ PathBefore(PathTo(parsed[a.tu].result.cursor, a.id),
                     PathTo(parsed[a.tu].result.cursor, b.id))

Ascending(fns) == \A i \in 1..(Len(fns) - 1) : lines(fns[i]) <= lines(fns[i + 1])

\* C2: in both modes every adjacent pair of printed entries is ascending
\* by line count, over the concatenation of all files' entries.
C2_ReportAscending ==
    /\ \A i \in 1..(Len(stdout) - 1) : stdout[i].lines <= stdout[i + 1].lines
    /\ pc = "done" => Len(stdout) = Len(IF Batch THEN Sum(results) ELSE functions)

C2_Witness ==
    /\ pc = "done" /\ Batch
    /\ Len(results) >= 2
    /\ ~Ascending(Sum(results))
    /\ \E i \in 1..Len(Sum(results)) : Sum(results)[i].node.tu > 1

\* C3: every entry of the report, and of what functions_from_file returns,
\* has at least one line; every collected declaration with more than zero
\* lines is in the report.
C3_NoEmptyEntries ==
    /\ \A k \in 1..Len(stdout) :
          /\ stdout[k].lines >= 1
          /\ stdout[k].node.extent.present
          /\ stdout[k].node.extent.end_line # stdout[k].node.extent.start_line
    /\ \A k \in 1..Len(functions) : lines(functions[k]) >= 1
    /\ \A j \in 1..Len(results) : \A k \in 1..Len(results[j]) : lines(results[j][k]) >= 1
    /\ pc = "done" =>
          \A j \in 1..Len(parsed) :
              LET collected == list_of_functions(parsed[j].result.cursor, j,
                                                 TranslationUnitCursor)
              IN \A k \in 1..Len(collected) :
                    lines(collected[k]) > 0 =>
                        \E n \in 1..Len(stdout) : stdout[n].node = collected[k].node

C3_Witness ==
    /\ pc = "done"
    /\ stdout # <<>>
    /\ \E j \in 1..Len(parsed) :
          LET collected == list_of_functions(parsed[j].result.cursor, j,
                                             TranslationUnitCursor)
          IN /\ \E k \in 1..Len(collected) : ~collected[k].node.extent.present
             /\ \E k \in 1..Len(collected) :
                   /\ collected[k].node.extent.present
                   /\ lines(collected[k]) = 0

\* The report the run would print had the files whose parse failed not been
\* in the batch.
RECURSIVE WithoutFailures(_, _)
WithoutFailures(calls, tu) ==
    IF calls = <<>> THEN <<>>
    ELSE IF Head(calls).result.status = "TranslationUnitLoadError"
    THEN WithoutFailures(Tail(calls), tu)
    ELSE <<functions_from_file(compilation_database, Head(calls).source,
                               Head(calls).result, tu).functions>>
         \o WithoutFailures(Tail(calls), tu + 1)

Shown(fns) == [k \in 1..Len(fns) |-> [name |-> fns[k].name, lines |-> lines(fns[k])]]

\* C4: in a batch run a file whose parse fails contributes no entry, the
\* run goes on with the remaining files, and the report is the one of the
\* batch without the failing files.
C4_ParseFailureIsLocal ==
    Batch =>
        /\ raised # "TranslationUnitLoadError"
        /\ \A j \in 1..Len(results) :
              parsed[j].result.status = "TranslationUnitLoadError" => results[j] = <<>>
        /\ pc \in {"order", "print", "done"} =>
              /\ Len(parsed) = Len(source_files)
              /\ \A j \in 1..Len(parsed) : parsed[j].source = source_files[j]
        /\ pc = "done" =>
              [k \in 1..Len(stdout) |-> [name |-> stdout[k].name, lines |-> stdout[k].lines]]
                  = Shown(order_by_lines(Sum(WithoutFailures(parsed, 1))))

C4_Witness ==
    /\ pc = "done" /\ Batch
    /\ Len(parsed) = 3
    /\ parsed[1].result = Parsed(TreeTies)
    /\ parsed[2].result = LoadError
    /\ parsed[3].result = Parsed(TreeScenario)
    /\ Len(stdout) = 6

\* C7: when the database registers no compile command for the source file,
\* the file is still handed to the parser, without extra arguments, and the
\* run does not end with an error.
C7_UnregisteredFileStillParsed ==
    (/\ pc # "main"
     /\ Single
     /\ compilation_database # None
     /\ getCompileCommands(ValueOf(compilation_database), ValueOf(source)) = None)
    => /\ raised = ""
       /\ \E j \in 1..Len(parsed) :
             parsed[j].source = ValueOf(source) /\ parsed[j].args = <<>>

\* C8: for every value m of --max-sources, at most m files of the database
\* are processed.
C8_MaxSourcesCaps ==
    (Batch /\ max_sources # None) => Len(parsed) <= ValueOf(max_sources)

\* C9: two report entries with the same line count are in discovery order
\* (database file order, then pre-order in the file's tree), and the report
\* is a permutation of the concatenated per-file filtered entries.
C9_TiesKeepDiscoveryOrder ==
    pc = "done" =>
        /\ \A a, b \in 1..Len(stdout) :
              (a < b /\ stdout[a].lines = stdout[b].lines)
                  => DiscoveredBefore(stdout[a].node, stdout[b].node)
        /\ \A a, b \in 1..Len(stdout) : a # b => Key(stdout[a].node) # Key(stdout[b].node)
        /\ {Key(stdout[k].node) : k \in 1..Len(stdout)} = Discovered
        /\ Batch => /\ Len(stdout) = Len(Sum(results))
                    /\ {stdout[k].node : k \in 1..Len(stdout)}
                          = {Sum(results)[k].node : k \in 1..Len(Sum(results))}
                    /\ \A j \in 1..Len(parsed) :
                          parsed[j].source = ValueOf(compilation_database)[j].filename

C9_Witness ==
    /\ pc = "done" /\ Batch
    /\ ~Ascending(Sum(results))
    /\ \E a, b \in 1..Len(stdout) :
          /\ a < b /\ stdout[a].lines = stdout[b].lines
          /\ stdout[a].node.tu < stdout[b].node.tu
    /\ \E a, b \in 1..Len(stdout) :
          /\ a < b /\ stdout[a].lines = stdout[b].lines
          /\ stdout[a].node.tu = stdout[b].node.tu
          /\ stdout[a].node.id > stdout[b].node.id

====
